---- MODULE Spec2Model ----
(***************************************************************************)
(* Bed Proofing Logger (streamlit_app.py): the event log, the last-played  *)
(* hint, the user-key gate and the state file of a user key.               *)
(*                                                                         *)
(* Representation.                                                         *)
(*  - A time in seconds is an integer number of ticks; one millisecond is  *)
(*    SubMs ticks, so a time can carry more digits than fmt_time_hh shows. *)
(*  - A text typed into (or rendered for) a timecode cell is the sequence  *)
(*    of its ":"-separated parts; a part is an integer literal, a decimal  *)
(*    literal, "inf", or something that is no number.                      *)
(*  - A string of a user key is the sequence of its characters.            *)
(*  - The content of a file is the sequence of the chunks written to it; a *)
(*    chunk names the document it belongs to and its place in it.          *)
(*  - An audio_id is the pair of the name and the bytes it is the hash    *)
(*    of; a stored file's path is its audio_id and its suffix.             *)
(*                                                                         *)
(* Specifications.                                                         *)
(*  - Spec: one browser tab; every run of the script is one step; all the  *)
(*    operations on the log and the hint.                                  *)
(*  - SpecStore: one browser tab, any page address and any earlier content *)
(*    of the state file; the gate, load_state and save_state.              *)
(*  - SpecSave: two browser tabs under one user key; the steps of          *)
(*    save_state interleave.                                               *)
(*  - SpecFail: one browser tab; save_state can fail.                      *)
(*  - SpecKey: the gate, for user keys with characters of every kind.      *)
(*  - SpecCodec: fmt_time_hh followed by parse_timecode_to_seconds.        *)
(*  - SpecMedia: one browser tab; the uploader, the catalogue of uploaded  *)
(*    files and the directory of the stored files.                         *)
(*  - SpecShared: two browser tabs under one user key; every run is one    *)
(*    step.                                                                *)
(*  - SpecTable: one browser tab; the table editor with edits of two       *)
(*    cells.                                                               *)
(***************************************************************************)
EXTENDS Integers, Sequences, FiniteSets, TLC

\* ------------------------------------------------------------------ bounds
MaxLog == 2
NChunks == 2
MaxKeyText == 2
MaxHours == 100

\* ------------------------------------------------------- program constants
Decimals == 3
KeyMaxLen == 64

\* ticks per millisecond: the digits of a float time below the last digit
\* fmt_time_hh renders
SubMs == 5

LABELS == <<"Breath", "Pop", "Noise", "Click", "Plosive", "Mouth", "Other">>

TicksPerSec == SubMs * (10 ^ Decimals)
Sec(n) == n * TicksPerSec

\* ------------------------------------------------------------ input sets
Tabs == {"t1", "t2"}
RawKeys == { <<"k">>, <<"!">>, <<" ", "k", "!">> }
GoodKeys == { <<"k">> }
Positions == {Sec(60) - 2, Sec(60)}
ClickLabels == {LABELS[2]}
NoteInputs == {""}
Epochs == {1700000000}
EditedLabels == {"Custom"}

NoneStr == "<None>"

\* ------------------------------------------------- formatting and parsing
IntPart(n) == [kind |-> "int", val |-> n]
DecPart(t) == [kind |-> "dec", val |-> t]
InfPart == [kind |-> "inf", val |-> 0]
BadPart == [kind |-> "bad", val |-> 0]

\* The texts a user types into a timecode cell:
\* "-5", "0:-5", "00:01:00.00", "abc", "inf", "1.5:30", "".
TypedTimecodes ==
    { <<IntPart(-5)>>,
      <<IntPart(0), IntPart(-5)>>,
      <<IntPart(0), IntPart(1), DecPart(0)>>,
      <<BadPart>>,
      <<InfPart>>,
      <<DecPart(Sec(1) + (TicksPerSec \div 2)), IntPart(30)>>,
      << >> }

\* The texts still standing in a timecode cell when "Apply deletions" is
\* pressed: "-5", "inf".
StaleTimecodes == { <<IntPart(-5)>>, <<InfPart>> }

\* round-half-up of a non-negative number of ticks to whole milliseconds
\* (no tick count is an exact half, SubMs being odd)
RoundMs(ticks) == (2 * ticks + SubMs) \div (2 * SubMs)

fmt_time_hh(seconds) ==
    LET secs == IF seconds < 0 THEN 0 ELSE seconds
        mTot == secs \div Sec(60)
        s    == secs % Sec(60)
        h    == mTot \div 60
        m    == mTot % 60
    IN  << IntPart(h), IntPart(m), DecPart(RoundMs(s) * SubMs) >>

IsInt(p) == p.kind = "int"
IsFloat(p) == p.kind \in {"int", "dec", "inf"}
FloatOf(p) == IF p.kind = "int" THEN Sec(p.val) ELSE p.val

NoSeconds == [ok |-> FALSE, inf |-> FALSE, val |-> 0]
Seconds(inf, v) == [ok |-> TRUE, inf |-> inf, val |-> IF inf THEN 0 ELSE v]

parse_timecode_to_seconds(tc) ==
    IF tc = << >> THEN NoSeconds
    ELSE IF Len(tc) = 3 /\ IsInt(tc[1]) /\ IsInt(tc[2]) /\ IsFloat(tc[3])
         THEN Seconds(tc[3].kind = "inf",
                      Sec(tc[1].val * 3600) + Sec(tc[2].val * 60) + FloatOf(tc[3]))
    ELSE IF Len(tc) = 2 /\ IsInt(tc[1]) /\ IsFloat(tc[2])
         THEN Seconds(tc[2].kind = "inf", Sec(tc[1].val * 60) + FloatOf(tc[2]))
    ELSE IF Len(tc) = 1 /\ IsFloat(tc[1])
         THEN Seconds(tc[1].kind = "inf", FloatOf(tc[1]))
    ELSE NoSeconds

\* ------------------------------------------------------------- user keys
\* str.isalnum() (line 77) is true for the letters and digits of ASCII and
\* for those of every other script; "e-acute" (U+00E9) stands for the
\* latter.
AsciiAlnum ==
    { "a", "b", "c", "d", "e", "f", "g", "h", "i", "j", "k", "l", "m", "n",
      "o", "p", "q", "r", "s", "t", "u", "v", "w", "x", "y", "z", "A", "B",
      "C", "D", "E", "F", "G", "H", "I", "J", "K", "L", "M", "N", "O", "P",
      "Q", "R", "S", "T", "U", "V", "W", "X", "Y", "Z", "0", "1", "2", "3",
      "4", "5", "6", "7", "8", "9" }
OtherAlnum == {"e-acute"}

IsKeyChar(ch) == ch \in AsciiAlnum \cup OtherAlnum \/ ch \in {"-", "_"}

RECURSIVE Strip(_)
Strip(s) ==
    IF s = << >> THEN s
    ELSE IF Head(s) = " " THEN Strip(Tail(s))
    ELSE IF s[Len(s)] = " " THEN Strip(SubSeq(s, 1, Len(s) - 1))
    ELSE s

RECURSIVE KeepKeyChars(_)
KeepKeyChars(s) ==
    IF s = << >> THEN << >>
    ELSE IF IsKeyChar(Head(s)) THEN <<Head(s)>> \o KeepKeyChars(Tail(s))
    ELSE KeepKeyChars(Tail(s))

safe_key(s) ==
    LET kept == KeepKeyChars(Strip(s))
    IN  SubSeq(kept, 1, IF Len(kept) < KeyMaxLen THEN Len(kept) ELSE KeyMaxLen)

\* every directory data/<key>/ a tab of this model can address
SafeKeys == { safe_key(r) : r \in RawKeys }

\* ------------------------------------------------- the state file (JSON)
\* Values as json.loads returns them, with the type isinstance() sees.
JList(v) == [t |-> "list", v |-> v]
JDict(v) == [t |-> "dict", v |-> v]
JScalar == [t |-> "scalar", v |-> << >>]

KnownFields == {"events", "last_played"}

default_last_played == [audio_file |-> NoneStr, time_sec |-> 0]
default_state == [events |-> << >>, last_played |-> default_last_played]

\* a serialization that writes every time with Decimals digits only
RoundedTime(ticks) == IF ticks < 0 THEN ticks ELSE RoundMs(ticks) * SubMs
json_dumps_rounded(state) ==
    [top |-> "object",
     fields |-> [f \in KnownFields |->
                   IF f = "events"
                   THEN JList([i \in 1..Len(state.events) |->
                                 [state.events[i] EXCEPT !.time_sec = RoundedTime(@)]])
                   ELSE JDict([state.last_played EXCEPT !.time_sec = RoundedTime(@)])]]

\* json.dumps of the dict persist_now builds: an object of two members
json_dumps(state) ==
    [top |-> "object",
     fields |-> [f \in KnownFields |->
                   IF f = "events" THEN JList(state.events)
                   ELSE JDict(state.last_played)]]

\* the chunks write_text writes for a document, in order
ChunksOf(doc) == [i \in 1..NChunks |-> [doc |-> doc, idx |-> i]]
NoFile == [exists |-> FALSE, chunks |-> << >>]
FileOf(doc) == [exists |-> TRUE, chunks |-> ChunksOf(doc)]

\* a content is the complete text of one document
IsComplete(chunks) ==
    /\ Len(chunks) = NChunks
    /\ \A i \in 1..NChunks : chunks[i].idx = i /\ chunks[i].doc = chunks[1].doc

\* p.read_text() then json.loads(): a torn or foreign text raises
json_loads(chunks) ==
    IF IsComplete(chunks) /\ chunks[1].doc.top # "invalid"
    THEN [ok |-> TRUE, doc |-> chunks[1].doc]
    ELSE [ok |-> FALSE, doc |-> [top |-> "invalid"]]

SetDefault(d, k, v) ==
    IF k \in DOMAIN d THEN d
    ELSE [x \in (DOMAIN d) \cup {k} |-> IF x = k THEN v ELSE d[x]]

\* what a caller sees when load_state lets an exception out
Raised == [raised |-> TRUE]
Raises(data) == "raised" \in DOMAIN data

\* an except clause that lets the exception go on to the caller
Reraised == Raised

\* the except clause of load_state (lines 108-109)
OnException == default_state

\* load_state (lines 93-109). A missing file gives default_state, and so
\* does every exception of the try block (read_text, json.loads, setdefault
\* on something that is no dict). Else the dict returned has "events" a
\* list, "last_played" a dict with both keys, and every member of the file
\* this reader does not know.
load_state(d, key) ==
    LET p == d[key]
        r == json_loads(p.chunks)
    IN  IF ~p.exists THEN default_state
        ELSE IF ~r.ok \/ r.doc.top # "object" THEN OnException
        ELSE LET d0 == r.doc.fields
                 d1 == SetDefault(d0, "events", JList(<< >>))
                 d2 == SetDefault(d1, "last_played", JDict(default_last_played))
                 lp0 == IF d2["last_played"].t # "dict"
                        THEN default_last_played
                        ELSE d2["last_played"].v
                 lp1 == SetDefault(lp0, "audio_file", NoneStr)
                 lp2 == SetDefault(lp1, "time_sec", 0)
                 ev  == IF d2["events"].t # "list" THEN << >> ELSE d2["events"].v
             IN  [f \in DOMAIN d2 |->
                    IF f = "events" THEN ev
                    ELSE IF f = "last_played" THEN lp2
                    ELSE d2[f]]

\* the members of a loaded dict that session_state does not take over
UnknownOf(data) == { <<f, data[f]>> : f \in (DOMAIN data) \ KnownFields }

\* save_state when nothing else touches the directory between its steps:
\* mkdir, write data/<key>/state.json.tmp, rename it over state.json
save_state(d, key, state) ==
    [d EXCEPT ![key] = FileOf(json_dumps(state))]

\* a persist_now that leaves the write to a later flush
persist_later(d, key, ev, lp) == d

persist_now(d, key, ev, lp) ==
    save_state(d, key, [events |-> ev, last_played |-> lp])

\* ------------------------------------------------- what a state file may
\* hold when a tab first reads it: nothing, bytes that are no JSON, a
\* document cut short, a JSON list, an older document with fewer members, a document whose members
\* have the wrong type, and a document of a fuller schema written after an
\* earlier session played b.mp3 and logged a Pop.
EarlierEvent ==
    [audio_file |-> "a.mp3", time_sec |-> Sec(60),
     timecode |-> fmt_time_hh(Sec(60)), label |-> LABELS[2], note |-> "",
     logged_at_epoch |-> 1700000000]

InvalidFile == FileOf([top |-> "invalid"])
TornFile ==
    [exists |-> TRUE, chunks |-> SubSeq(ChunksOf(json_dumps(default_state)), 1, 1)]
ListFile == FileOf([top |-> "list"])
OlderFile ==
    FileOf([top |-> "object",
            fields |-> [f \in {"last_played"} |-> JDict([audio_file |-> "b.mp3"])]])
WrongTypesFile ==
    FileOf([top |-> "object", fields |-> [f \in KnownFields |-> JScalar]])
FullerFile ==
    FileOf([top |-> "object",
            fields |-> [f \in KnownFields \cup {"catalogue"} |->
                          IF f = "events" THEN JList(<<EarlierEvent>>)
                          ELSE IF f = "last_played"
                               THEN JDict([audio_file |-> "b.mp3", time_sec |-> Sec(60)])
                          ELSE JScalar]])

InitialFiles ==
    { NoFile, InvalidFile, TornFile, ListFile, OlderFile, WrongTypesFile,
      FullerFile }

\* ------------------------------------------------------------------ state
VARIABLES
    url,              \* per tab: the raw "k" of the page address, << >> if none
    seeded,           \* per tab: session_state holds "events" and "last_played"
    events,           \* per tab: st.session_state["events"]
    last_played,      \* per tab: st.session_state["last_played"]
    uploaded_audio,   \* per tab: st.session_state["uploaded_audio"], audio_id -> entry
    active_audio_id,  \* per tab: st.session_state["active_audio_id"]
    disk,             \* per user key: data/<key>/state.json
    tmpf,             \* per user key: data/<key>/state.json.tmp
    saving,           \* per tab: where the tab is inside save_state
    lastOp,           \* per tab: what the tab's latest run was
    clickUndo,        \* per tab: the log before a label click, until another edit of the log
    lastReported,     \* per tab: the position the widget reported last, else the loaded one
    unknown,          \* per tab: the unknown members of the file the session was seeded from
    lastSave,         \* per user key: the state of the latest completed save_state
    codec,            \* a call of the time codec: its arguments and what it returned so far
    tempdir,          \* the proofing_audio_* files of tempfile.gettempdir(): path -> bytes
    io                \* per tab: what the latest run wrote, probed and handed to the player

vars == << url, seeded, events, last_played, uploaded_audio, active_audio_id,
           disk, tmpf, saving, lastOp, clickUndo, lastReported, unknown,
           lastSave, codec, tempdir, io >>

\* everything but the call of the time codec
session == << url, seeded, events, last_played, uploaded_audio, active_audio_id,
              disk, tmpf, saving, lastOp, clickUndo, lastReported, unknown,
              lastSave, tempdir, io >>

NoCall == [stage |-> "none"]

NotSaving == [fd |-> "none", pos |-> 0, doc |-> [top |-> "invalid"]]
NoClick == [phase |-> "none", log |-> << >>]
NoSave == [valid |-> FALSE, state |-> default_state]
NoCatalog == << >>

\* None for an audio_id and for a path
NoId == << NoneStr, NoneStr >>
NoPath == [id |-> NoId, suffix |-> ""]
NoIo == [uploaded |-> {}, written |-> {}, probed |-> {}, audix |-> NoPath,
         unavailable |-> FALSE]

user_key(t) == safe_key(url[t])

\* the tab is past the gate, its session is seeded and no save is under way
Scoped(t) == seeded[t] /\ saving[t].fd = "none"

\* ------------------------------------------------------------ the key gate
\* Lines 193-210 for a new session: load_state(safe_key(k)) seeds
\* session_state. An exception of load_state would end the run there.
Seed(t, raw, op) ==
    \E data \in {load_state(disk, safe_key(raw))} :
        /\ url' = [url EXCEPT ![t] = raw]
        /\ uploaded_audio' = [uploaded_audio EXCEPT ![t] = NoCatalog]
        /\ active_audio_id' = [active_audio_id EXCEPT ![t] = NoId]
        /\ clickUndo' = [clickUndo EXCEPT ![t] = NoClick]
        /\ io' = [io EXCEPT ![t] = NoIo]
        /\ IF Raises(data)
           THEN /\ seeded' = [seeded EXCEPT ![t] = FALSE]
                /\ events' = [events EXCEPT ![t] = << >>]
                /\ last_played' = [last_played EXCEPT ![t] = default_last_played]
                /\ lastReported' = [lastReported EXCEPT ![t] = 0]
                /\ unknown' = [unknown EXCEPT ![t] = {}]
                /\ lastOp' = [lastOp EXCEPT ![t] = "crashed"]
           ELSE /\ seeded' = [seeded EXCEPT ![t] = TRUE]
                /\ events' = [events EXCEPT ![t] = data["events"]]
                /\ last_played' = [last_played EXCEPT ![t] = data["last_played"]]
                /\ lastReported' = [lastReported EXCEPT ![t] = data["last_played"]["time_sec"]]
                /\ unknown' = [unknown EXCEPT ![t] = UnknownOf(data)]
                /\ lastOp' = [lastOp EXCEPT ![t] = op]
        /\ UNCHANGED << disk, tmpf, saving, lastSave, codec, tempdir >>

\* the gate's test of the page address (line 179)
GatePasses(raw) == raw # << >>

\* the gate's test of the text of the Continue form (lines 185-186)
ContinueAccepts(entered) == safe_key(entered) # << >>

\* A browser opens the page with ?k=raw in its address (lines 176-198).
OpenPage(t, raw) ==
    /\ url[t] = << >> /\ ~seeded[t] /\ lastOp[t] # "crashed"
    /\ GatePasses(raw)
    /\ Seed(t, raw, "seed")

\* The Continue button of the NoKey form (lines 184-190); an accepted key
\* goes into the page address and the script runs again.
Continue(t, entered) ==
    /\ url[t] = << >> /\ ~seeded[t] /\ lastOp[t] # "crashed"
    /\ IF ContinueAccepts(entered)
       THEN Seed(t, safe_key(entered), "seed")
       ELSE /\ lastOp' = [lastOp EXCEPT ![t] = "rejected"]
            /\ UNCHANGED << url, seeded, events, last_played, uploaded_audio,
                            active_audio_id, disk, tmpf, saving, clickUndo,
                            lastReported, unknown, lastSave, codec, tempdir,
                            io >>

\* The browser reloads the page: a new session under the same address.
Reload(t) ==
    /\ Scoped(t)
    /\ Seed(t, url[t], "reload")

\* ------------------------------------------------------- one script run
\* What the audio widget returns in a run: a current position, or nothing.
NoReport == [given |-> FALSE, at |-> 0]
Reports == {NoReport} \cup { [given |-> TRUE, at |-> p] : p \in Positions }

\* audio_path is set when the session's catalogue is not empty (lines 240-273)
HasPlayer(t) == DOMAIN uploaded_audio[t] # {}
audio_name(t) == uploaded_audio[t][active_audio_id[t]].name
audio_path(t) == uploaded_audio[t][active_audio_id[t]].path

\* ------------------------------------------------------ uploaded audio
\* An uploaded file is its name and its bytes. _hash_upload (lines 130-131)
\* is taken to give different files different ids.
Up(name, data) == [name |-> name, data |-> data]
audio_id(up) == << up.name, up.data >>

\* Path(audio_name).suffix or ".mp3", lowered (lines 135, 140)
Suffix(name) == IF name = "B.WAV" THEN ".WAV" ELSE ".mp3"
Lower(suffix) == IF suffix = ".WAV" THEN ".wav" ELSE suffix
out_path(up) ==
    [id |-> audio_id(up),
     suffix |-> Lower(IF Suffix(up.name) = "" THEN ".mp3" ELSE Suffix(up.name))]

\* get_duration_seconds (lines 146-169) of the file at a path: a number, or
\* None for bytes mutagen cannot read and for a missing file
NoDuration == [known |-> FALSE, sec |-> 0]
DurationOf(data) ==
    IF data = "d1" THEN [known |-> TRUE, sec |-> Sec(90)] ELSE NoDuration
get_duration_seconds(dir, path) ==
    IF path \in DOMAIN dir THEN DurationOf(dir[path]) ELSE NoDuration

\* a probe of the duration for every file of the uploader
AlwaysNew(cat, id) == TRUE

\* the file is not in the session's catalogue yet (line 229)
IsNew(cat, id) == id \notin DOMAIN cat

\* The loop of lines 226-235 over the files the uploader holds: the
\* directory and the catalogue after it, the paths written and probed.
RECURSIVE Register(_, _)
Register(ups, acc) ==
    IF ups = << >> THEN acc
    ELSE LET up == Head(ups)
             path == out_path(up)
             write == path \notin DOMAIN acc.dir
             dir == IF write THEN (path :> up.data) @@ acc.dir ELSE acc.dir
             new == IsNew(acc.cat, audio_id(up))
             entry == [name |-> up.name, path |-> path,
                       duration |-> get_duration_seconds(dir, path)]
         IN  Register(Tail(ups),
                 [dir |-> dir,
                  cat |-> IF new THEN (audio_id(up) :> entry) @@ acc.cat ELSE acc.cat,
                  uploaded |-> acc.uploaded \cup {audio_id(up)},
                  written |-> IF write THEN acc.written \cup {path} ELSE acc.written,
                  probed |-> IF new THEN acc.probed \cup {path} ELSE acc.probed,
                  newest |-> audio_id(up)])

\* A run in which the uploader still holds the files the session has
\* registered (lines 223-238): none is new (line 229), a stored file that is
\* gone is written again (lines 141-142), and the active entry's path goes to
\* the player (line 282).
Gone(t) ==
    { uploaded_audio[t][id].path : id \in DOMAIN uploaded_audio[t] } \ DOMAIN tempdir
HeldRun(t) ==
    /\ tempdir' = [p \in DOMAIN tempdir \cup Gone(t) |->
                      IF p \in DOMAIN tempdir THEN tempdir[p] ELSE p.id[2]]
    /\ io' = [io EXCEPT ![t] =
                 [uploaded |-> DOMAIN uploaded_audio[t],
                  written |-> Gone(t),
                  probed |-> {},
                  audix |-> IF HasPlayer(t) THEN audio_path(t) ELSE NoPath,
                  unavailable |-> FALSE]]

\* lp_time (line 210)
lp_time(t) == last_played[t]["time_sec"]

\* the hint the player block stores for a reported position (line 286)
ReportedHint(t, rep) == [audio_file |-> audio_name(t), time_sec |-> rep.at]

\* a run without a report that takes the absence for position zero
ZeroedHint(t) == [last_played[t] EXCEPT !.time_sec = 0]

\* the hint a run without a report leaves in place
UnreportedHint(t) == last_played[t]

\* the run has a position to store
Reported(t, rep) == HasPlayer(t) /\ rep.given

\* The player block (lines 275-287): last_time, the hint and the disk after it.
Player(t, rep) ==
    IF Reported(t, rep)
    THEN [last_time |-> rep.at,
          lp |-> ReportedHint(t, rep),
          d  |-> persist_now(disk, user_key(t), events[t], ReportedHint(t, rep))]
    ELSE [last_time |-> lp_time(t), lp |-> UnreportedHint(t), d |-> disk]

\* Bookkeeping of a run: whether it changed and saved the session, the
\* position it was given, and the state its last save_state wrote.
Ran(t, rep, saved, ev, lp) ==
    /\ lastOp' = [lastOp EXCEPT ![t] = IF saved THEN "mut" ELSE "run"]
    /\ lastReported' = [lastReported EXCEPT ![t] = IF rep.given THEN rep.at ELSE @]
    /\ lastSave' = IF saved
                   THEN [lastSave EXCEPT ![user_key(t)] =
                            [valid |-> TRUE,
                             state |-> [events |-> ev, last_played |-> lp]]]
                   ELSE lastSave
    /\ HeldRun(t)
    /\ UNCHANGED codec

\* A run with files in the uploader (lines 223-238) and no report of the
\* widget: the files are stored and registered, the newest becomes the active
\* one and its path goes to the player (lines 258-282).
UploadRun(t, ups) ==
    /\ Scoped(t) /\ ups # << >>
    /\ \E r \in {Register(ups, [dir |-> tempdir, cat |-> uploaded_audio[t],
                                 uploaded |-> {}, written |-> {}, probed |-> {},
                                 newest |-> NoId])} :
          /\ tempdir' = r.dir
          /\ uploaded_audio' = [uploaded_audio EXCEPT ![t] = r.cat]
          /\ active_audio_id' = [active_audio_id EXCEPT ![t] = r.newest]
          /\ io' = [io EXCEPT ![t] =
                       [uploaded |-> r.uploaded, written |-> r.written,
                        probed |-> r.probed, audix |-> r.cat[r.newest].path,
                        unavailable |-> FALSE]]
    /\ lastOp' = [lastOp EXCEPT ![t] = "run"]
    /\ UNCHANGED << url, seeded, events, last_played, disk, tmpf, saving,
                    clickUndo, lastReported, unknown, lastSave, codec >>

\* A file is uploaded (lines 223-238); it becomes the active one.
Upload(t, name) == UploadRun(t, << Up(name, "d1") >>)

\* A run in which the widget reports a position and nothing else happens.
PlayerReport(t, rep) ==
    /\ Scoped(t) /\ Reported(t, rep)
    /\ \E P \in {Player(t, rep)} :
          /\ last_played' = [last_played EXCEPT ![t] = P.lp]
          /\ disk' = P.d
          /\ Ran(t, rep, TRUE, events[t], P.lp)
    /\ UNCHANGED << url, seeded, events, uploaded_audio, active_audio_id,
                    tmpf, saving, clickUndo, unknown >>

\* the event a label click appends (lines 316-325)
NewEvent(name, last_time, label, note, now) ==
    [audio_file |-> name,
     time_sec |-> last_time,
     timecode |-> fmt_time_hh(last_time),
     label |-> label,
     note |-> note,
     logged_at_epoch |-> now]

\* the hint a label click stores (line 330)
ClickHint(name, last_time) == [audio_file |-> name, time_sec |-> last_time]

\* A label button is clicked (lines 313-332).
LabelClick(t, label, note, now, rep) ==
    /\ Scoped(t) /\ HasPlayer(t)
    /\ Len(events[t]) < MaxLog
    /\ \E P \in {Player(t, rep)} :
       \E ev \in {Append(events[t], NewEvent(audio_name(t), P.last_time, label, note, now))},
          lp \in {ClickHint(audio_name(t), P.last_time)} :
          /\ events' = [events EXCEPT ![t] = ev]
          /\ last_played' = [last_played EXCEPT ![t] = lp]
          /\ disk' = persist_now(P.d, user_key(t), ev, lp)
          /\ Ran(t, rep, TRUE, ev, lp)
    /\ clickUndo' = [clickUndo EXCEPT ![t] = [phase |-> "clicked", log |-> events[t]]]
    /\ UNCHANGED << url, seeded, uploaded_audio, active_audio_id, tmpf, saving,
                    unknown >>

\* ------------------------------------------------------ the events table
\* repair_timecode (lines 349-358): an empty timecode cell shows the
\* rendering of time_sec
repair_timecode(e) ==
    IF e.timecode # << >> THEN e.timecode ELSE fmt_time_hh(e.time_sec)

\* pd.DataFrame(events) with the Delete column put in front (lines 343-363)
FrameOf(ev) ==
    [i \in 1..Len(ev) |->
        [Delete |-> FALSE,
         audio_file |-> ev[i].audio_file,
         time_sec |-> ev[i].time_sec,
         timecode |-> repair_timecode(ev[i]),
         label |-> ev[i].label,
         note |-> ev[i].note,
         logged_at_epoch |-> ev[i].logged_at_epoch]]

\* a cell the user left as it was
SameText == <<[kind |-> "same", val |-> 0]>>
SameLabel == "<same>"
Retyped(cell, typed, same) == IF typed = same THEN cell ELSE typed

\* What st.data_editor returns for a frame (lines 365-378): the frame with
\* the rows of T ticked and the timecode and label cells of one row retyped;
\* audio_file, time_sec and logged_at_epoch are disabled (line 371).
EditedFrame(df, T, row, tc, lab) ==
    [i \in 1..Len(df) |->
        [df[i] EXCEPT !.Delete = (i \in T),
                      !.timecode = IF i = row THEN Retyped(@, tc, SameText) ELSE @,
                      !.label = IF i = row THEN Retyped(@, lab, SameLabel) ELSE @]]

Rows(ev) == 1..Len(ev)

\* normalise_for_compare (lines 435-439): the frame without its Delete column
normalise_for_compare(frame) ==
    [i \in 1..Len(frame) |-> [frame[i] EXCEPT !.Delete = FALSE]]

\* the rows "Apply deletions" keeps (line 407)
RECURSIVE KeptRows(_)
KeptRows(frame) ==
    IF frame = << >> THEN << >>
    ELSE IF Head(frame).Delete THEN KeptRows(Tail(frame))
    ELSE <<Head(frame)>> \o KeptRows(Tail(frame))

\* The seconds rebuild_events_from_frame takes for a row (lines 385-391): the
\* parsed timecode cell, else the row's time_sec.
RowSeconds(r) ==
    LET sec == parse_timecode_to_seconds(r.timecode)
    IN  IF sec.ok THEN sec ELSE Seconds(FALSE, r.time_sec)

\* the value stored as time_sec for the seconds of a row (line 396)
StoredSeconds(sec) == sec.val

\* a rebuild that stores the timecode cell as it was typed
RebuiltEventAsTyped(r) ==
    [audio_file |-> IF r.audio_file = NoneStr THEN "" ELSE r.audio_file,
     time_sec |-> StoredSeconds(RowSeconds(r)),
     timecode |-> r.timecode,
     label |-> r.label,
     note |-> r.note,
     logged_at_epoch |-> r.logged_at_epoch]

\* the event rebuilt from a row (lines 393-402)
RebuiltEvent(r) ==
    LET sec == RowSeconds(r)
    IN  [audio_file |-> IF r.audio_file = NoneStr THEN "" ELSE r.audio_file,
         time_sec |-> StoredSeconds(sec),
         timecode |-> fmt_time_hh(sec.val),
         label |-> r.label,
         note |-> r.note,
         logged_at_epoch |-> r.logged_at_epoch]

\* rebuild_events_from_frame (lines 382-403); fmt_time_hh raises ValueError
\* for an infinite number of seconds (int(nan), line 30)
rebuild_events_from_frame(frame) ==
    [raised |-> \E i \in 1..Len(frame) : RowSeconds(frame[i]).inf,
     events |-> [i \in 1..Len(frame) |-> RebuiltEvent(frame[i])]]

\* the table is drawn when the log is not empty (lines 340-343)
HasTable(t) == events[t] # << >>

\* A run that replaces the log by the rebuild R of a frame. When the rebuild
\* raises, the log stays and only the player block's save has happened.
Rebuild(t, rep, R) ==
    \E P \in {Player(t, rep)} :
        /\ last_played' = [last_played EXCEPT ![t] = P.lp]
        /\ IF R.raised
           THEN /\ events' = events
                /\ disk' = P.d
                /\ Ran(t, rep, Reported(t, rep), events[t], P.lp)
           ELSE /\ events' = [events EXCEPT ![t] = R.events]
                /\ disk' = persist_now(P.d, user_key(t), R.events, P.lp)
                /\ Ran(t, rep, TRUE, R.events, P.lp)
        /\ clickUndo' = [clickUndo EXCEPT ![t] = NoClick]
        /\ UNCHANGED << url, seeded, uploaded_audio, active_audio_id, tmpf,
                        saving, unknown >>

\* "Apply deletions" is pressed (lines 405-412); an exception of the rebuild
\* ends the run.
ApplyDeletions(t, edited, rep) ==
    /\ Scoped(t) /\ HasTable(t)
    /\ rep.given => HasPlayer(t)
    /\ \E R \in {rebuild_events_from_frame(KeptRows(edited))} : Rebuild(t, rep, R)

\* A cell of the table was retyped and no button pressed (lines 441-448); an
\* exception of the rebuild is swallowed (line 447).
InlineEdit(t, edited, rep) ==
    /\ Scoped(t) /\ HasTable(t)
    /\ rep.given => HasPlayer(t)
    /\ normalise_for_compare(FrameOf(events[t])) # normalise_for_compare(edited)
    /\ \E R \in {rebuild_events_from_frame(normalise_for_compare(edited))} :
          Rebuild(t, rep, R)

\* the frames "Apply deletions" finds in the editor: rows ticked, and a
\* timecode cell that may still hold a text typed earlier
ApplyFrames(t) ==
    { EditedFrame(FrameOf(events[t]), T, row, tc, SameLabel) :
         T \in SUBSET Rows(events[t]), row \in Rows(events[t]),
         tc \in StaleTimecodes \cup {SameText} }

\* the frames of an edit of the timecode cell or the label of one row
EditFrames(t) ==
    { EditedFrame(FrameOf(events[t]), {}, row, tc, lab) :
         row \in Rows(events[t]), tc \in TypedTimecodes \cup {SameText},
         lab \in EditedLabels \cup {SameLabel} }

\* the frames of an edit of the label of one row
LabelFrames(t) ==
    { EditedFrame(FrameOf(events[t]), {}, row, SameText, lab) :
         row \in Rows(events[t]), lab \in EditedLabels }

\* the frames of an edit that left other texts in the timecode cells of two
\* rows (typed one after the other, or pasted)
CellFrames(t) ==
    { EditedFrame(EditedFrame(FrameOf(events[t]), {}, r1, tc1, SameLabel),
                  {}, r2, tc2, lab) :
         r1 \in Rows(events[t]), r2 \in Rows(events[t]),
         tc1 \in StaleTimecodes \cup {SameText},
         tc2 \in TypedTimecodes \cup {SameText},
         lab \in EditedLabels \cup {SameLabel} }

\* a pop that takes the oldest event
PoppedFirst(ev) == Tail(ev)

\* the log after events.pop() (line 416)
Popped(ev) == SubSeq(ev, 1, Len(ev) - 1)

\* "Undo last" is pressed on a log that is not empty (lines 414-418).
UndoLast(t, rep) ==
    /\ Scoped(t) /\ HasTable(t)
    /\ rep.given => HasPlayer(t)
    /\ \E P \in {Player(t, rep)}, ev \in {Popped(events[t])} :
          /\ last_played' = [last_played EXCEPT ![t] = P.lp]
          /\ events' = [events EXCEPT ![t] = ev]
          /\ disk' = persist_now(P.d, user_key(t), ev, P.lp)
          /\ Ran(t, rep, TRUE, ev, P.lp)
    /\ clickUndo' = [clickUndo EXCEPT ![t] =
                        IF @.phase = "clicked" THEN [@ EXCEPT !.phase = "undone"]
                        ELSE NoClick]
    /\ UNCHANGED << url, seeded, uploaded_audio, active_audio_id, tmpf, saving,
                    unknown >>

\* "Clear all" is pressed (lines 420-424).
ClearAll(t, rep) ==
    /\ Scoped(t) /\ HasTable(t)
    /\ rep.given => HasPlayer(t)
    /\ \E P \in {Player(t, rep)} :
          /\ last_played' = [last_played EXCEPT ![t] = P.lp]
          /\ events' = [events EXCEPT ![t] = << >>]
          /\ disk' = persist_now(P.d, user_key(t), << >>, P.lp)
          /\ Ran(t, rep, TRUE, << >>, P.lp)
    /\ clickUndo' = [clickUndo EXCEPT ![t] = NoClick]
    /\ UNCHANGED << url, seeded, uploaded_audio, active_audio_id, tmpf, saving,
                    unknown >>

\* ------------------------------------------- save_state, step by step
\* Two tabs under one user key run save_state at the same time. Both use the
\* one path data/<key>/state.json.tmp (line 114). A tab's open file follows
\* its inode: after another tab's rename it is the state file itself.
Hole == [doc |-> [top |-> "invalid"], idx |-> 0]

\* the content after a write of chunk c at place i
WriteAt(chunks, i, c) ==
    [j \in 1..(IF Len(chunks) < i THEN i ELSE Len(chunks)) |->
        IF j = i THEN c ELSE IF j <= Len(chunks) THEN chunks[j] ELSE Hole]

\* A run in which the widget reports a position: the hint is stored and
\* persist_now gets as far as opening the temporary file, which creates or
\* truncates it (lines 285-287, 112-115).
BeginReport(t, rep) ==
    /\ Scoped(t) /\ Reported(t, rep)
    /\ last_played' = [last_played EXCEPT ![t] = ReportedHint(t, rep)]
    /\ tmpf' = [tmpf EXCEPT ![user_key(t)] = [exists |-> TRUE, chunks |-> << >>]]
    /\ saving' = [saving EXCEPT ![t] =
                    [fd |-> "tmp", pos |-> 1,
                     doc |-> json_dumps([events |-> events[t],
                                         last_played |-> ReportedHint(t, rep)])]]
    /\ lastOp' = [lastOp EXCEPT ![t] = "saving"]
    /\ lastReported' = [lastReported EXCEPT ![t] = rep.at]
    /\ UNCHANGED << url, seeded, events, uploaded_audio, active_audio_id, disk,
                    clickUndo, unknown, lastSave, codec, tempdir, io >>

\* write_text writes the next chunk of the document (line 115)
WriteChunk(t) ==
    /\ saving[t].fd # "none" /\ saving[t].pos <= NChunks
    /\ \E c \in {[doc |-> saving[t].doc, idx |-> saving[t].pos]} :
          /\ tmpf' = IF saving[t].fd = "tmp"
                     THEN [tmpf EXCEPT ![user_key(t)].chunks = WriteAt(@, saving[t].pos, c)]
                     ELSE tmpf
          /\ disk' = IF saving[t].fd = "target"
                     THEN [disk EXCEPT ![user_key(t)].chunks = WriteAt(@, saving[t].pos, c)]
                     ELSE disk
    /\ saving' = [saving EXCEPT ![t].pos = @ + 1]
    /\ UNCHANGED << url, seeded, events, last_played, uploaded_audio,
                    active_audio_id, lastOp, clickUndo, lastReported, unknown,
                    lastSave, codec, tempdir, io >>

\* tmp.replace(p) (line 116): the temporary file becomes the state file; if
\* another tab has renamed it away, FileNotFoundError ends the run.
FinishSave(t) ==
    /\ saving[t].fd # "none" /\ saving[t].pos = NChunks + 1
    /\ IF tmpf[user_key(t)].exists
       THEN /\ disk' = [disk EXCEPT ![user_key(t)] = tmpf[user_key(t)]]
            /\ tmpf' = [tmpf EXCEPT ![user_key(t)] = NoFile]
            /\ saving' = [u \in Tabs |->
                            IF u = t THEN NotSaving
                            ELSE IF user_key(u) # user_key(t) THEN saving[u]
                            ELSE IF saving[u].fd = "tmp" THEN [saving[u] EXCEPT !.fd = "target"]
                            ELSE IF saving[u].fd = "target" THEN [saving[u] EXCEPT !.fd = "gone"]
                            ELSE saving[u]]
            /\ lastOp' = [lastOp EXCEPT ![t] = "mut"]
            /\ lastSave' = [lastSave EXCEPT ![user_key(t)] =
                              [valid |-> TRUE,
                               state |-> [events |-> events[t],
                                          last_played |-> last_played[t]]]]
       ELSE /\ saving' = [saving EXCEPT ![t] = NotSaving]
            /\ lastOp' = [lastOp EXCEPT ![t] = "failed"]
            /\ UNCHANGED << disk, tmpf, lastSave >>
    /\ UNCHANGED << url, seeded, events, last_played, uploaded_audio,
                    active_audio_id, clickUndo, lastReported, unknown, codec,
                    tempdir, io >>

\* ------------------------------------------------------- specifications
InitSession(keys, files) ==
    /\ url = [t \in Tabs |-> << >>]
    /\ seeded = [t \in Tabs |-> FALSE]
    /\ events = [t \in Tabs |-> << >>]
    /\ last_played = [t \in Tabs |-> default_last_played]
    /\ uploaded_audio = [t \in Tabs |-> NoCatalog]
    /\ active_audio_id = [t \in Tabs |-> NoId]
    /\ \E c \in files : disk = [k \in keys |-> c]
    /\ tmpf = [k \in keys |-> NoFile]
    /\ saving = [t \in Tabs |-> NotSaving]
    /\ lastOp = [t \in Tabs |-> "none"]
    /\ clickUndo = [t \in Tabs |-> NoClick]
    /\ lastReported = [t \in Tabs |-> 0]
    /\ unknown = [t \in Tabs |-> {}]
    /\ lastSave = [k \in keys |-> NoSave]
    /\ tempdir = << >>
    /\ io = [t \in Tabs |-> NoIo]

InitOver(keys, files) ==
    /\ InitSession(keys, files)
    /\ codec = NoCall

InitWith(files) == InitOver(SafeKeys, files)

\* Spec: the log and the hint. One browser tab; the data directory is empty
\* or holds the file of an earlier session; every run of the script is one
\* step.
Init == InitWith({NoFile, FullerFile})

Next ==
    \E t \in {"t1"} :
        \/ \E raw \in GoodKeys : OpenPage(t, raw)
        \/ \E entered \in RawKeys \cup {<< >>} : Continue(t, entered)
        \/ Reload(t)
        \/ Upload(t, "a.mp3")
        \/ \E rep \in Reports : PlayerReport(t, rep)
        \/ \E label \in ClickLabels, note \in NoteInputs, now \in Epochs, rep \in Reports :
              LabelClick(t, label, note, now, rep)
        \/ \E rep \in Reports, ed \in ApplyFrames(t) : ApplyDeletions(t, ed, rep)
        \/ \E rep \in Reports : UndoLast(t, rep)
        \/ \E rep \in Reports : ClearAll(t, rep)
        \/ \E rep \in Reports, ed \in EditFrames(t) : InlineEdit(t, ed, rep)

Spec == Init /\ [][Next]_vars

\* SpecStore: the gate and the state file. One browser tab, any page address,
\* any earlier content of the state file; the log changes by label clicks,
\* "Undo last" and "Clear all".
InitStore == InitWith(InitialFiles)

NextStore ==
    \E t \in {"t1"} :
        \/ \E raw \in RawKeys : OpenPage(t, raw)
        \/ \E entered \in RawKeys \cup {<< >>} : Continue(t, entered)
        \/ Reload(t)
        \/ Upload(t, "a.mp3")
        \/ \E rep \in Reports : PlayerReport(t, rep)
        \/ \E label \in ClickLabels, note \in NoteInputs, now \in Epochs, rep \in Reports :
              LabelClick(t, label, note, now, rep)
        \/ \E rep \in Reports : UndoLast(t, rep)
        \/ \E rep \in Reports : ClearAll(t, rep)

SpecStore == InitStore /\ [][NextStore]_vars

\* SpecSave: two browser tabs under one user key whose runs overlap; the
\* steps of save_state are steps of their own.
InitSave == InitWith({NoFile})

NextSave ==
    \E t \in Tabs :
        \/ \E raw \in GoodKeys : OpenPage(t, raw)
        \/ Reload(t)
        \/ Upload(t, "a.mp3")
        \/ \E rep \in Reports : BeginReport(t, rep)
        \/ WriteChunk(t)
        \/ FinishSave(t)

SpecSave == InitSave /\ [][NextSave]_vars

\* ------------------------------------------- save_state that fails
\* the steps of save_state that can raise OSError (lines 113, 115, 116)
SaveSteps == {"mkdir", "write_text", "replace"}

\* What a save_state that fails at a step leaves of the temporary file: the
\* one found, a part of the document, or the whole document not renamed.
FailedSave(tf, key, state, step) ==
    IF step = "mkdir" THEN tf
    ELSE IF step = "write_text"
         THEN [tf EXCEPT ![key] =
                 [exists |-> TRUE,
                  chunks |-> SubSeq(ChunksOf(json_dumps(state)), 1, 1)]]
    ELSE [tf EXCEPT ![key] = FileOf(json_dumps(state))]

\* A run that has assigned ev and lp to the session and whose persist_now
\* raises at a step. The exception ends the run and streamlit shows it,
\* unless the call stands in a try block that swallows it: then the run goes
\* on to its end.
Failed(t, rep, ev, lp, step, swallowed) ==
    /\ events' = [events EXCEPT ![t] = ev]
    /\ last_played' = [last_played EXCEPT ![t] = lp]
    /\ tmpf' = FailedSave(tmpf, user_key(t), [events |-> ev, last_played |-> lp], step)
    /\ lastOp' = [lastOp EXCEPT ![t] = IF swallowed THEN "run" ELSE "failed"]
    /\ lastReported' = [lastReported EXCEPT ![t] = IF rep.given THEN rep.at ELSE @]
    /\ clickUndo' = [clickUndo EXCEPT ![t] = NoClick]
    /\ HeldRun(t)
    /\ UNCHANGED << url, seeded, uploaded_audio, active_audio_id, disk, saving,
                    unknown, lastSave, codec >>

\* the player block's persist_now raises (line 287)
ReportFails(t, rep, step) ==
    /\ Scoped(t) /\ Reported(t, rep)
    /\ Failed(t, rep, events[t], ReportedHint(t, rep), step, FALSE)

\* a label click's persist_now raises (line 331); the widget reported nothing
ClickFails(t, label, note, now, step) ==
    /\ Scoped(t) /\ HasPlayer(t)
    /\ Len(events[t]) < MaxLog
    /\ Failed(t, NoReport,
              Append(events[t], NewEvent(audio_name(t), lp_time(t), label, note, now)),
              ClickHint(audio_name(t), lp_time(t)), step, FALSE)

\* the persist_now of "Apply deletions" raises (line 411)
ApplyFails(t, edited, step) ==
    /\ Scoped(t) /\ HasTable(t)
    /\ \E R \in {rebuild_events_from_frame(KeptRows(edited))} :
          /\ ~R.raised
          /\ Failed(t, NoReport, R.events, last_played[t], step, FALSE)

\* the persist_now of "Undo last" raises (line 417)
UndoFails(t, step) ==
    /\ Scoped(t) /\ HasTable(t)
    /\ Failed(t, NoReport, Popped(events[t]), last_played[t], step, FALSE)

\* the persist_now of "Clear all" raises (line 423)
ClearFails(t, step) ==
    /\ Scoped(t) /\ HasTable(t)
    /\ Failed(t, NoReport, << >>, last_played[t], step, FALSE)

\* The persist_now of the inline edit raises (line 446) inside the try block
\* of lines 441-448, whose except clause passes.
InlineEditFails(t, edited, step) ==
    /\ Scoped(t) /\ HasTable(t)
    /\ normalise_for_compare(FrameOf(events[t])) # normalise_for_compare(edited)
    /\ \E R \in {rebuild_events_from_frame(normalise_for_compare(edited))} :
          /\ ~R.raised
          /\ Failed(t, NoReport, R.events, last_played[t], step, TRUE)

\* SpecFail: one browser tab and a data directory in which save_state can
\* fail at any of its steps, in any run. A save_state that succeeds is taken
\* while no earlier one has left a temporary file behind.
InitFail == InitWith({NoFile})

\* the position the widget reports in the runs of SpecFail
FailReports == { [given |-> TRUE, at |-> Sec(60)] }

NextFail ==
    \E t \in {"t1"} :
        \/ \E raw \in GoodKeys : OpenPage(t, raw)
        \/ Upload(t, "a.mp3")
        \/ \E rep \in FailReports :
              ~tmpf[user_key(t)].exists /\ PlayerReport(t, rep)
        \/ \E label \in ClickLabels, note \in NoteInputs, now \in Epochs :
              ~tmpf[user_key(t)].exists /\ LabelClick(t, label, note, now, NoReport)
        \/ \E rep \in FailReports, step \in SaveSteps : ReportFails(t, rep, step)
        \/ \E label \in ClickLabels, note \in NoteInputs, now \in Epochs, step \in SaveSteps :
              ClickFails(t, label, note, now, step)
        \/ \E T \in SUBSET Rows(events[t]), step \in SaveSteps :
              \E ed \in {EditedFrame(FrameOf(events[t]), T, 1, SameText, SameLabel)} :
                 ApplyFails(t, ed, step)
        \/ \E step \in SaveSteps : UndoFails(t, step)
        \/ \E step \in SaveSteps : ClearFails(t, step)
        \/ \E row \in Rows(events[t]), lab \in EditedLabels, step \in SaveSteps :
              \E ed \in {EditedFrame(FrameOf(events[t]), {}, row, SameText, lab)} :
                 InlineEditFails(t, ed, step)

SpecFail == InitFail /\ [][NextFail]_vars

\* ------------------------------------------------------- keys as typed
\* The texts of SpecKey: every text of up to MaxKeyText characters over a
\* blank, a letter, a punctuation mark, a letter outside ASCII and a hyphen;
\* " dw 25!dec "; and a text of KeyMaxLen + 1 letters.
KeyAlphabet == {" ", "k", "!", "e-acute", "-"}
ShortTexts ==
    UNION { [1..n -> KeyAlphabet] : n \in 0..MaxKeyText }
ExampleText == <<" ", "d", "w", " ", "2", "5", "!", "d", "e", "c", " ">>
LongText == [i \in 1..(KeyMaxLen + 1) |-> "k"]
KeyTexts == ShortTexts \cup {ExampleText, LongText}
TextKeys == { safe_key(r) : r \in KeyTexts }

\* SpecKey: two browser tabs at the gate; the key comes with the page
\* address or from the Continue form, as any of the texts.
InitKey == InitOver(TextKeys, {NoFile})

NextKey ==
    \E t \in Tabs :
        \/ \E raw \in KeyTexts : OpenPage(t, raw)
        \/ \E entered \in KeyTexts : Continue(t, entered)
        \/ Reload(t)

SpecKey == InitKey /\ [][NextKey]_vars

\* ------------------------------------------------ the time codec alone
\* 10^-decimals seconds, in ticks
Unit(decimals) == TicksPerSec \div (10 ^ decimals)

\* The number of units f"{s:.{decimals}f}" (line 29) shows for s: the nearest
\* one; a decimal half goes up or down as the binary value of the float
\* lies above or below it.
RoundUnits(ticks, unit, tieUp) ==
    IF 2 * (ticks % unit) > unit \/ (2 * (ticks % unit) = unit /\ tieUp)
    THEN (ticks \div unit) + 1
    ELSE ticks \div unit

\* a formatter that shows the hours with two digits only
fmt_two_digit_hours(seconds, decimals, tieUp) ==
    LET secs == IF seconds < 0 THEN 0 ELSE seconds
        mTot == secs \div Sec(60)
    IN  << IntPart((mTot \div 60) % 100), IntPart(mTot % 60),
           DecPart(RoundUnits(secs % Sec(60), Unit(decimals), tieUp) * Unit(decimals)) >>

\* fmt_time_hh(seconds, decimals) (lines 23-30)
fmt_time_hh_decimals(seconds, decimals, tieUp) ==
    LET secs == IF seconds < 0 THEN 0 ELSE seconds
        mTot == secs \div Sec(60)
    IN  << IntPart(mTot \div 60), IntPart(mTot % 60),
           DecPart(RoundUnits(secs % Sec(60), Unit(decimals), tieUp) * Unit(decimals)) >>

\* The times of SpecCodec: zero, one tick, the decimal halves of every
\* precision, seconds that round up to 60, an hour less a tick, and times of
\* a hundred hours and more.
CodecTimes ==
    { 0, 1, Unit(0) \div 2, Unit(1) \div 2, Unit(2) \div 2, Sec(60) - 2,
      Sec(60), Sec(3600) - 1, Sec(360000) - 1, Sec(360000) + 3,
      Sec(MaxHours * 3600) + Sec(59) + (TicksPerSec \div 2) + 1 }
CodecDecimals == 0..Decimals

\* the calls the codec can be given
CodecCalls ==
    { [stage |-> "given", s |-> s, p |-> p, tieUp |-> u] :
        s \in CodecTimes, p \in CodecDecimals, u \in BOOLEAN }

\* fmt_time_hh(s, p) is called
Format ==
    /\ codec.stage = "given"
    /\ codec' = [stage |-> "formatted", s |-> codec.s, p |-> codec.p,
                 tieUp |-> codec.tieUp,
                 text |-> fmt_time_hh_decimals(codec.s, codec.p, codec.tieUp)]
    /\ UNCHANGED session

\* parse_timecode_to_seconds is called with the text
ParseBack ==
    /\ codec.stage = "formatted"
    /\ codec' = [stage |-> "parsed", s |-> codec.s, p |-> codec.p,
                 tieUp |-> codec.tieUp, text |-> codec.text,
                 back |-> parse_timecode_to_seconds(codec.text)]
    /\ UNCHANGED session

\* SpecCodec: fmt_time_hh and then parse_timecode_to_seconds, for every time
\* and precision.
InitCodec == InitSession(SafeKeys, {NoFile}) /\ codec \in CodecCalls

NextCodec == Format \/ ParseBack

SpecCodec == InitCodec /\ [][NextCodec]_vars

\* ------------------------------------------------- the uploaded files
\* SpecMedia: one tab, the uploader, the selectbox and the directory of the
\* stored files; what the uploader holds is given run by run. The files
\* differ in name or in bytes, and the labels of the selectbox (name and
\* duration, line 255) differ for all of them, so that the label picked is
\* the entry picked (line 264).
MediaFiles == {Up("a.mp3", "d1"), Up("a.mp3", "d2"), Up("B.WAV", "d1")}
Uploads == {<< a >> : a \in MediaFiles} \cup {<< a, b >> : a, b \in MediaFiles}

\* A run in which the uploader holds no file and the user picks an entry of
\* the selectbox (lines 240-282): the entry's path goes to the player.
SelectRun(t, pick) ==
    /\ Scoped(t)
    /\ pick \in DOMAIN uploaded_audio[t]
    /\ active_audio_id' = [active_audio_id EXCEPT ![t] = pick]
    /\ io' = [io EXCEPT ![t] = [NoIo EXCEPT !.audix = uploaded_audio[t][pick].path]]
    /\ lastOp' = [lastOp EXCEPT ![t] = "run"]
    /\ UNCHANGED << url, seeded, events, last_played, uploaded_audio, disk, tmpf,
                    saving, clickUndo, lastReported, unknown, lastSave, codec,
                    tempdir >>

\* A stored file is deleted by something other than the program.
DeleteStored(path) ==
    /\ path \in DOMAIN tempdir
    /\ tempdir' = [p \in DOMAIN tempdir \ {path} |-> tempdir[p]]
    /\ UNCHANGED << url, seeded, events, last_played, uploaded_audio,
                    active_audio_id, disk, tmpf, saving, lastOp, clickUndo,
                    lastReported, unknown, lastSave, codec, io >>

InitMedia == InitWith({NoFile})

NextMedia ==
    \E t \in {"t1"} :
        \/ \E raw \in GoodKeys : OpenPage(t, raw)
        \/ Reload(t)
        \/ \E ups \in Uploads : UploadRun(t, ups)
        \/ \E pick \in DOMAIN uploaded_audio[t] : SelectRun(t, pick)
        \/ \E path \in DOMAIN tempdir : DeleteStored(path)

SpecMedia == InitMedia /\ [][NextMedia]_vars

\* ------------------------------------------- two sessions under one key
\* SpecShared: two browser tabs open the page with the same key; every run
\* of the script is one step.
InitShared == InitWith({NoFile})

NextShared ==
    \E t \in Tabs :
        \/ \E raw \in GoodKeys : OpenPage(t, raw)
        \/ Reload(t)
        \/ Upload(t, "a.mp3")
        \/ \E label \in ClickLabels, note \in NoteInputs, now \in Epochs, rep \in Reports :
              LabelClick(t, label, note, now, rep)

SpecShared == InitShared /\ [][NextShared]_vars

\* ------------------------------------------ the table with two edits
\* SpecTable: one tab and the table editor with edits of two cells.
InitTable == InitWith({NoFile})

NextTable ==
    \E t \in {"t1"} :
        \/ \E raw \in GoodKeys : OpenPage(t, raw)
        \/ Reload(t)
        \/ Upload(t, "a.mp3")
        \/ \E label \in ClickLabels, note \in NoteInputs, now \in Epochs, rep \in Reports :
              LabelClick(t, label, note, now, rep)
        \/ \E rep \in Reports, ed \in CellFrames(t) : InlineEdit(t, ed, rep)
        \/ \E rep \in Reports, ed \in ApplyFrames(t) : ApplyDeletions(t, ed, rep)

SpecTable == InitTable /\ [][NextTable]_vars

\* ---------------------------------------------------------------- claims
\* the document a state file holds, if it is one complete document
DocOf(file) == json_loads(file.chunks).doc

\* the file is one complete JSON object
IsStateDocument(file) ==
    file.exists /\ json_loads(file.chunks).ok /\ DocOf(file).top = "object"

\* C1 (write-through). Under Spec: a seeded session never holds events or a
\* last_played that its key's state file does not hold, and when a run that
\* changed the log or the hint and saved has ended, the state file is one
\* complete document holding exactly the session's events and last_played.
WriteThrough ==
    \A t \in Tabs :
        seeded[t] =>
            /\ IF disk[user_key(t)].exists
               THEN /\ load_state(disk, user_key(t))["events"] = events[t]
                    /\ load_state(disk, user_key(t))["last_played"] = last_played[t]
               ELSE /\ events[t] = << >>
                    /\ last_played[t] = default_last_played
            /\ lastOp[t] = "mut" =>
                  /\ IsStateDocument(disk[user_key(t)])
                  /\ DocOf(disk[user_key(t)]).fields =
                        [f \in KnownFields |->
                            IF f = "events" THEN JList(events[t])
                            ELSE JDict(last_played[t])]

\* a run has just saved a log that is not empty for the file a.mp3
WriteThroughWitness ==
    /\ lastOp["t1"] = "mut"
    /\ events["t1"] # << >>
    /\ last_played["t1"]["audio_file"] = "a.mp3"
    /\ IsStateDocument(disk[user_key("t1")])

\* C2 (atomic save). Under SpecSave, whatever the interleaving of the steps of
\* save_state of the tabs of one key: the state file path holds no file or
\* the complete serialization of one state.
AtomicSave ==
    \A k \in SafeKeys : ~disk[k].exists \/ IsStateDocument(disk[k])

\* C3 (key gate). Under SpecStore: a session is seeded (load_state has run)
\* only under a user key that is not empty after sanitization, and nothing is
\* saved under the empty key.
KeyGate ==
    /\ \A t \in Tabs : seeded[t] => user_key(t) # << >>
    /\ ~lastSave[<< >>].valid

\* C4 (timecode invariant). Under Spec: every event of a session's log has
\* timecode = fmt_time_hh(time_sec).
TimecodeInvariant ==
    \A t \in Tabs : \A i \in 1..Len(events[t]) :
        events[t][i].timecode = fmt_time_hh(events[t][i].time_sec)

\* the log holds an event rebuilt from a timecode cell retyped as "-5"
TimecodeWitness ==
    \E i \in 1..Len(events["t1"]) :
        /\ events["t1"][i].time_sec = Sec(-5)
        /\ events["t1"][i].timecode = fmt_time_hh(0)

\* C5 (non-negative timestamps). Under Spec: every event's time_sec is a
\* non-negative number, whatever was typed into a timecode cell.
NonNegativeTimestamps ==
    \A t \in Tabs : \A i \in 1..Len(events[t]) : events[t][i].time_sec >= 0

\* C6 (append/undo inverse). Under Spec: after a label click followed by
\* "Undo last", the session's log and the events of the state file are the
\* log before the click.
AppendUndoInverse ==
    \A t \in Tabs :
        clickUndo[t].phase = "undone" =>
            /\ events[t] = clickUndo[t].log
            /\ IsStateDocument(disk[user_key(t)])
            /\ DocOf(disk[user_key(t)]).fields["events"] = JList(clickUndo[t].log)

\* a click on a log that was not empty has been undone
AppendUndoWitness ==
    /\ clickUndo["t1"].phase = "undone"
    /\ clickUndo["t1"].log # << >>
    /\ lastOp["t1"] = "mut"

\* C7 (persistence fidelity). Under SpecStore: load_state of a key returns
\* the state of the key's latest completed save_state, and a session started
\* by a reload begins with the events and last_played of that save.
PersistenceFidelity ==
    /\ \A k \in SafeKeys :
          lastSave[k].valid => load_state(disk, k) = lastSave[k].state
    /\ \A t \in Tabs :
          (seeded[t] /\ lastOp[t] = "reload" /\ lastSave[user_key(t)].valid) =>
              /\ events[t] = lastSave[user_key(t)].state.events
              /\ last_played[t] = lastSave[user_key(t)].state.last_played

\* a reload after the save of a log that is not empty and of a position with
\* more digits than a timecode shows
PersistenceWitness ==
    /\ seeded["t1"] /\ lastOp["t1"] = "reload"
    /\ lastSave[user_key("t1")].valid
    /\ events["t1"] # << >>
    /\ last_played["t1"]["time_sec"] = Sec(60) - 2

\* C8 (corrupt-file resilience). Under SpecStore: for a state file that is
\* missing, unreadable, cut short or not a JSON object, load_state returns
\* the default state and does not raise; a session seeded from such a file
\* starts with no events and the default last_played.
CorruptFileResilience ==
    /\ \A k \in SafeKeys :
          ~IsStateDocument(disk[k]) => load_state(disk, k) = default_state
    /\ \A t \in Tabs :
          /\ lastOp[t] # "crashed"
          /\ (lastOp[t] = "seed" /\ ~IsStateDocument(disk[user_key(t)])) =>
                /\ seeded[t]
                /\ events[t] = << >>
                /\ last_played[t] = default_last_played

\* a session was seeded from bytes that are no JSON
CorruptFileWitness ==
    /\ seeded["t1"] /\ lastOp["t1"] = "seed"
    /\ disk[user_key("t1")] = InvalidFile

\* C9 (unknown fields). Under SpecStore: every member of the state file that
\* load_state does not know and a session was seeded with is in the state
\* file, with its value, after the session's writes.
UnknownFieldsCarried ==
    \A t \in Tabs :
        seeded[t] =>
            \A m \in unknown[t] :
                /\ IsStateDocument(disk[user_key(t)])
                /\ m[1] \in DOMAIN DocOf(disk[user_key(t)]).fields
                /\ DocOf(disk[user_key(t)]).fields[m[1]] = m[2]

\* C10 (resume hint). Under Spec: last_played.time_sec of a session, and of
\* its state file once there is one, is the position the widget reported
\* last, else the one loaded, else 0; a label click and a run without a
\* report leave it so.
ResumeHint ==
    \A t \in Tabs :
        seeded[t] =>
            /\ last_played[t]["time_sec"] = lastReported[t]
            /\ disk[user_key(t)].exists =>
                  load_state(disk, user_key(t))["last_played"]["time_sec"] = lastReported[t]

\* a label click has stored the position the widget reported last, one with
\* more digits than a timecode shows
ResumeHintWitness ==
    /\ clickUndo["t1"].phase = "clicked"
    /\ lastOp["t1"] = "mut"
    /\ lastReported["t1"] = Sec(60) - 2
    /\ last_played["t1"]["time_sec"] = Sec(60) - 2
    /\ events["t1"] # << >>

\* C11 (storage failure contained and reported). Under SpecFail: the state
\* file holds the state of the latest completed save_state, or is missing if
\* there was none, whatever failed since; and a run that changes a session's
\* events or last_played and leaves the state file without them ends with
\* the exception shown.
StorageFailureReported ==
    /\ [](\A k \in SafeKeys :
            IF lastSave[k].valid
            THEN load_state(disk, k) = lastSave[k].state
            ELSE ~disk[k].exists)
    /\ [][\A t \in Tabs :
            ( /\ seeded[t] /\ seeded'[t]
              /\ events'[t] # events[t] \/ last_played'[t] # last_played[t]
              /\ ~( /\ disk'[safe_key(url'[t])].exists
                    /\ load_state(disk', safe_key(url'[t]))["events"] = events'[t]
                    /\ load_state(disk', safe_key(url'[t]))["last_played"] = last_played'[t] ) )
            => lastOp'[t] = "failed"]_vars

\* C12 (sanitize). Under SpecKey: the user key of every page address is
\* at most 64 characters long, holds only characters of [A-Za-z0-9_-], and is
\* the address's key text with every other character deleted, cut to 64.
SanitizedKey ==
    \A t \in Tabs :
        LET kept == SelectSeq(url[t], LAMBDA ch : ch \in AsciiAlnum \cup {"-", "_"})
        IN  /\ Len(user_key(t)) <= 64
            /\ \A i \in 1..Len(user_key(t)) :
                  user_key(t)[i] \in AsciiAlnum \cup {"-", "_"}
            /\ user_key(t) = SubSeq(kept, 1, IF Len(kept) < 64 THEN Len(kept) ELSE 64)

\* C13 (round trip). Under SpecCodec: for every time s >= 0 and precision p,
\* parse_timecode_to_seconds(fmt_time_hh(s, p)) is a number within 10^-p of s;
\* with the default precision the text is the one fmt_time_hh(s) gives.
RoundTrip ==
    /\ codec.stage = "parsed" =>
          /\ codec.back.ok /\ ~codec.back.inf
          /\ codec.back.val - codec.s <= Unit(codec.p)
          /\ codec.s - codec.back.val <= Unit(codec.p)
    /\ (codec.stage \in {"formatted", "parsed"} /\ codec.p = Decimals) =>
          codec.text = fmt_time_hh(codec.s)

\* a time of more than a hundred hours whose seconds round up to 60 has made
\* the round trip
RoundTripWitness ==
    /\ codec.stage = "parsed"
    /\ codec.s = Sec(360000) - 1
    /\ codec.p = Decimals
    /\ codec.text = << IntPart(99), IntPart(59), DecPart(Sec(60)) >>
    /\ codec.back.val = Sec(360000)


\* C14: a run that finds in the uploader a file (name, bytes) the session has
\* registered already gives it the same audio_id and the same path, does not
\* probe its duration again, does not write its stored file again while that
\* file is there, and leaves every entry of the catalogue as it was; a run
\* that finds only such files leaves the catalogue unchanged.
IdempotentUploadStep(t, ups) ==
    LET cat == uploaded_audio[t]
        known(i) == audio_id(ups[i]) \in DOMAIN cat
    IN  /\ \A i \in 1..Len(ups) :
              known(i) =>
                 /\ cat[audio_id(ups[i])].path = out_path(ups[i])
                 /\ out_path(ups[i]) \notin io'[t].probed
                 /\ out_path(ups[i]) \in DOMAIN tempdir =>
                       /\ out_path(ups[i]) \notin io'[t].written
                       /\ tempdir'[out_path(ups[i])] = tempdir[out_path(ups[i])]
        /\ \A id \in DOMAIN cat :
              id \in DOMAIN uploaded_audio'[t] /\ uploaded_audio'[t][id] = cat[id]
        /\ (\A i \in 1..Len(ups) : known(i)) => uploaded_audio'[t] = cat
IdempotentUpload ==
    [][\A t \in Tabs, ups \in Uploads : UploadRun(t, ups) => IdempotentUploadStep(t, ups)]_vars

\* the latest run found in the uploader two files that were registered and
\* stored already
IdempotentUploadWitness ==
    /\ Cardinality(io["t1"].uploaded) = 2
    /\ io["t1"].probed = {}
    /\ io["t1"].written = {}
    /\ Cardinality(DOMAIN uploaded_audio["t1"]) = 3

\* C15: a run that selects an entry whose stored file is gone reports that
\* the content is unavailable and hands no path to the player; the entry stays
\* in the catalogue.
MissingAssetStep(t, pick) ==
    uploaded_audio[t][pick].path \notin DOMAIN tempdir =>
       /\ io'[t].unavailable
       /\ io'[t].audix = NoPath
       /\ pick \in DOMAIN uploaded_audio'[t]
MissingAssetReported ==
    [][\A t \in Tabs :
          \A pick \in DOMAIN uploaded_audio[t] :
             SelectRun(t, pick) => MissingAssetStep(t, pick)]_vars


\* C16: the events a label click leaves in the state file are the events the
\* file held when the click's run started, followed by the new event, in
\* every session of the key.
ClickAppendsToFile(t, label, note, now, rep) ==
    load_state(disk', user_key(t))["events"]
        = Append(load_state(disk, user_key(t))["events"],
                 NewEvent(audio_name(t), Player(t, rep).last_time, label, note, now))
ReadMutateFlush ==
    [][\A t \in Tabs, label \in ClickLabels, note \in NoteInputs, now \in Epochs,
          rep \in Reports :
          LabelClick(t, label, note, now, rep)
             => ClickAppendsToFile(t, label, note, now, rep)]_vars


\* C19: the event a label click appends for the file being played carries
\* the position reported in the click's run, else the position last reported
\* or restored for that same file, else zero; never the position of another
\* file.
PositionOf(t, rep) ==
    IF rep.given THEN rep.at
    ELSE IF last_played[t]["audio_file"] = audio_name(t) THEN lp_time(t)
    ELSE 0
TimestampsAttributed ==
    [][\A t \in Tabs, label \in ClickLabels, note \in NoteInputs, now \in Epochs,
          rep \in Reports :
          LabelClick(t, label, note, now, rep)
             => /\ events'[t][Len(events'[t])]["audio_file"] = audio_name(t)
                /\ events'[t][Len(events'[t])]["time_sec"] = PositionOf(t, rep)]_vars


\* C17: after an inline edit the log has as many rows as before; a row whose
\* timecode cell cannot be parsed keeps its time_sec and has the timecode
\* rendered from it, and every other row has the label and note of the edited
\* view and the seconds parsed from its timecode cell.
Unparsable(r) == ~parse_timecode_to_seconds(r.timecode).ok
TakesParsed(e, r) ==
    /\ e.label = r.label
    /\ e.note = r.note
    /\ ~parse_timecode_to_seconds(r.timecode).inf
    /\ e.time_sec = parse_timecode_to_seconds(r.timecode).val
MalformedRowStep(t, ed) ==
    (\E i \in 1..Len(ed) : Unparsable(ed[i])) =>
       /\ Len(events'[t]) = Len(events[t])
       /\ \A i \in 1..Len(ed) :
             IF Unparsable(ed[i])
             THEN /\ events'[t][i].time_sec = events[t][i].time_sec
                  /\ events'[t][i].timecode = fmt_time_hh(events[t][i].time_sec)
             ELSE TakesParsed(events'[t][i], ed[i])
MalformedRowKept ==
    [][\A t \in Tabs, rep \in Reports :
          \A ed \in CellFrames(t) :
             InlineEdit(t, ed, rep) => MalformedRowStep(t, ed)]_vars

\* C18: after "Apply deletions" the log is one event per row that was not
\* ticked, in the order of the rows, and the state file holds that log.
RemovedExactly(t, ed) ==
    LET kept == KeptRows(ed)
    IN  /\ Len(events'[t]) = Len(kept)
        /\ \A j \in 1..Len(kept) :
              /\ events'[t][j].audio_file = kept[j].audio_file
              /\ events'[t][j].label = kept[j].label
              /\ events'[t][j].note = kept[j].note
              /\ events'[t][j].logged_at_epoch = kept[j].logged_at_epoch
        /\ load_state(disk', user_key(t))["events"] = events'[t]
DeletionsApplied ==
    [][\A t \in Tabs, rep \in Reports :
          \A ed \in ApplyFrames(t) :
             ApplyDeletions(t, ed, rep) => RemovedExactly(t, ed)]_vars

\* C20: an inline edit of labels only, and "Apply deletions", leave the
\* audio_file, time_sec and logged_at_epoch of every row that stays as they
\* were.
SameOrigin(e, b) ==
    /\ e.audio_file = b.audio_file
    /\ e.time_sec = b.time_sec
    /\ e.logged_at_epoch = b.logged_at_epoch
Unticked(ed) == SelectSeq([i \in 1..Len(ed) |-> i], LAMBDA i : ~ed[i].Delete)
OriginKept(t, idx) ==
    /\ Len(events'[t]) = Len(idx)
    /\ \A j \in 1..Len(idx) : SameOrigin(events'[t][j], events[t][idx[j]])
EditsTouchOnlyEdited ==
    [][\A t \in Tabs, rep \in Reports :
          /\ \A ed \in LabelFrames(t) :
                InlineEdit(t, ed, rep) => OriginKept(t, Unticked(ed))
          /\ \A ed \in ApplyFrames(t) :
                (ApplyDeletions(t, ed, rep) /\ FrameOf(events[t]) = normalise_for_compare(ed))
                   => OriginKept(t, Unticked(ed))]_vars

====
